---------------------------- MODULE Spec2Model ----------------------------
(***************************************************************************)
(* The maze prototype of src/src/main.rs: the three levels built in main,  *)
(* the per-step rules of update_game and the fixed-timestep event-loop     *)
(* callback that drives it.  The tile-map game of src/src/bin/game2d.rs, a *)
(* separate binary, has its entities in positions and velocities; each     *)
(* specification follows one of the two programs and leaves the other's    *)
(* variables as they start.                                                *)
(*                                                                         *)
(* Time is counted in half timesteps (1/120 s), so that an accumulator can *)
(* hold a remainder smaller than one timestep: DT = 1/60 s = 2 units.      *)
(***************************************************************************)
EXTENDS Integers, Sequences, FiniteSets, TLC

VARIABLES
    mode,            \* GameState.mode
    player,          \* GameState.player (a Mobile)
    current_level,   \* GameState.current_level
    levels,          \* GameState.levels
    panicked,        \* TRUE once an out-of-bounds index has aborted the process
    input,           \* the keys the input helper reports as held
    available_time,  \* main's accumulator
    frame_count,     \* main's frame counter
    control_flow,    \* winit's ControlFlow as left by the callback
    T,               \* history: real time elapsed over all callbacks so far
    calls,           \* history: update_game calls started so far
    cb,              \* history: how the last callback ended
    event,           \* history: what the last delivered event showed
    last,            \* history: the state the last update_game call started in
    positions,       \* game2d: GameState.positions, one Vec2i per entity
    velocities       \* game2d: GameState.velocities, one Vec2i per entity

vars == <<mode, player, current_level, levels, panicked, input,
          available_time, frame_count, control_flow, T, calls, cb, event,
          last, positions, velocities>>

gameVars == <<mode, player, current_level, levels, panicked>>

---------------------------------------------------------------------------
(* Program constants *)

WIDTH == 269
HEIGHT == 187
DT == 2

(* Bounds of the model *)

\* the box of player positions SpecGame follows
BoxMinX == 166
BoxMaxX == 174
BoxMaxY == 502
\* half width of the windows of start positions SpecStep draws from
Margin == 5
\* driver: largest accumulator value a run starts from, largest elapsed time
\* of one callback, and the cap on the total elapsed time followed
MaxAvail == 7
MaxElapsed == 3
MaxT == 7
\* game2d: how far from its start, on each axis, the player is followed
Reach2D == 18

Keys == {"Right", "Left", "Up", "Down", "Space"}
Directions == {"Right", "Left", "Up", "Down"}
Snapshots == SUBSET Keys

---------------------------------------------------------------------------
(* Level data, as main builds it *)

Rect(x, y, w, h) == [x |-> x, y |-> y, w |-> w, h |-> h]

walls1 ==
    << Rect(0, 0, WIDTH, 100),                                  \* top wall
       Rect(0, 0, 150, HEIGHT),                                 \* left wall
       Rect((WIDTH \div 3) * 2, 0, WIDTH \div 3, HEIGHT),       \* right wall
       Rect(0, HEIGHT - 16, WIDTH, 16),                         \* bottom wall
       Rect(WIDTH \div 2, HEIGHT \div 2, 150, 300) >>           \* square wall

walls2 ==
    << Rect(0, 0, WIDTH, 0),                                    \* top wall
       Rect(0, 0, 90, HEIGHT),                                  \* left wall
       Rect(WIDTH - 26, 0, 90, HEIGHT),                         \* right wall
       Rect(0, HEIGHT - 30, WIDTH, 70),                         \* bottom wall
       Rect(220, 90, WIDTH, 70),                                \* first quarter wall
       Rect(0, 240, WIDTH - 90, 70),                            \* second quarter wall
       Rect(220, 390, WIDTH, 70) >>                             \* third quarter wall

walls3 ==
    << Rect(0, HEIGHT - 50, WIDTH, 50),                         \* bottom wall
       Rect(WIDTH - 150, 0, 150, HEIGHT),                       \* right wall
       Rect(0, 0, 100, HEIGHT),                                 \* left wall
       Rect(0, 0, WIDTH, 50),                                   \* top wall
       Rect(100, HEIGHT - 150, WIDTH \div 3 + 150, 50),         \* w1
       Rect(100 + 50, HEIGHT - 350, WIDTH \div 3 + 200, 150),   \* w2
       Rect(100, 50, WIDTH \div 3, 100),                        \* w3
       Rect(100 + WIDTH \div 3, HEIGHT - 375, WIDTH \div 3 + 100, 25), \* w4
       Rect((WIDTH \div 3) * 2 - 50, 50, WIDTH \div 3 + 50, 150),      \* w5
       Rect(100 + WIDTH \div 3, 125, 50, 25),                   \* w6
       Rect(130 + WIDTH \div 3, 93, 60, 3),                     \* w7
       Rect(100 + WIDTH \div 3, 50, 40, 15) >>                  \* w8

\* level with its exit below the square wall, where the player can walk to it
levelExitBelow ==
    [gamemap |-> walls1,
     exit |-> Rect(WIDTH \div 2 + 50, 400, 68, 75),
     position |-> <<170, 170>>]

level ==
    [gamemap |-> walls1,
     exit |-> Rect(WIDTH \div 2 + 50, 100, 68, 175),
     position |-> <<170, 170>>]

level2 ==
    [gamemap |-> walls2,
     exit |-> Rect(WIDTH - 50, 460, 30, 60),
     position |-> <<WIDTH - 55, 15>>]

level3 ==
    [gamemap |-> walls3,
     exit |-> Rect(373, 50, 43, 10),
     position |-> <<110, 463>>]

\* GameState.levels; Rust indexes it from 0, the sequence from 1
InitLevels == <<level, level2, level3>>

LevelAt(lv, i) == lv[i + 1]

\* GameState.player as constructed in main
InitPlayer == [rect |-> Rect(170, 500, 11, 11), vx |-> 0, vy |-> 0]

---------------------------------------------------------------------------
(* collision::rect_touching: inclusive overlap of both axis projections *)

rect_touching(r1, r2) ==
    /\ r1.x <= r2.x + r2.w
    /\ r2.x <= r1.x + r1.w
    /\ r1.y <= r2.y + r2.h
    /\ r2.y <= r1.y + r1.h

---------------------------------------------------------------------------
(* update_game.  A game state g is the record                              *)
(*   [mode, player, current_level, levels, panicked]                       *)

\* ApplyKeys with the Down test turned into the else branch of the Up test
ApplyKeysElseDown(p, held) ==
    LET x1 == IF "Right" \in held THEN p.rect.x + 1 ELSE p.rect.x
        x2 == IF "Left" \in held THEN x1 - 1 ELSE x1
        y1 == IF "Up" \in held THEN p.rect.y - 1 ELSE p.rect.y + 1
    IN  [p EXCEPT !.rect.x = x2, !.rect.y = y1]

\* ApplyKeys with the Left test turned into the else branch of the Right test
ApplyKeysElseLeft(p, held) ==
    LET x1 == IF "Right" \in held THEN p.rect.x + 1
              ELSE IF "Left" \in held THEN p.rect.x - 1 ELSE p.rect.x
        y1 == IF "Up" \in held THEN p.rect.y - 1 ELSE p.rect.y
        y2 == IF "Down" \in held THEN y1 + 1 ELSE y1
    IN  [p EXCEPT !.rect.x = x1, !.rect.y = y2]

\* lines 520-531: the four key tests, in the code's order
ApplyKeys(p, held) ==
    LET x1 == IF "Right" \in held THEN p.rect.x + 1 ELSE p.rect.x
        x2 == IF "Left" \in held THEN x1 - 1 ELSE x1
        y1 == IF "Up" \in held THEN p.rect.y - 1 ELSE p.rect.y
        y2 == IF "Down" \in held THEN y1 + 1 ELSE y1
    IN  [p EXCEPT !.rect.x = x2, !.rect.y = y2]

\* WallResponse without the assignment of 0 to the level index
WallResponseKeepsLevel(g) ==
    [g |-> [g EXCEPT !.player.rect.x = 170,
                     !.player.rect.y = 500],
     level_index |-> g.current_level]

\* WallResponse without the assignment to player.rect.x
WallResponseKeepsX(g) ==
    [g |-> [g EXCEPT !.current_level = 0,
                     !.player.rect.y = 500],
     level_index |-> 0]

\* WallResponse sending the player to level 0's spawn position instead
WallResponseToSpawn(g) ==
    [g |-> [g EXCEPT !.current_level = 0,
                     !.player.rect.x = LevelAt(g.levels, 0).position[1],
                     !.player.rect.y = LevelAt(g.levels, 0).position[2]],
     level_index |-> 0]

\* WallResponse sending the player back one level (level_index -= 1) in
\* place of the assignment of 0: at level 0 the usize subtraction overflows
\* and panics
WallResponseBackOne(g) ==
    IF g.current_level = 0
    THEN [g |-> [g EXCEPT !.panicked = TRUE], level_index |-> 0]
    ELSE [g |-> [g EXCEPT !.current_level = g.current_level - 1,
                          !.player.rect.x = 170,
                          !.player.rect.y = 500],
          level_index |-> g.current_level - 1]

\* lines 537-540: what the first touched wall does
WallResponse(g) ==
    [g |-> [g EXCEPT !.current_level = 0,
                     !.player.rect.x = 170,
                     !.player.rect.y = 500],
     level_index |-> 0]

\* WallLoop with a contact test that leaves out rectangles sharing only an edge
RECURSIVE WallLoopStrict(_, _, _, _)
WallLoopStrict(g, level_index, walls, k) ==
    IF k > Len(walls)
    THEN [g |-> g, level_index |-> level_index]
    ELSE IF /\ g.player.rect.x < walls[k].x + walls[k].w
            /\ walls[k].x < g.player.rect.x + g.player.rect.w
            /\ g.player.rect.y < walls[k].y + walls[k].h
            /\ walls[k].y < g.player.rect.y + g.player.rect.h
         THEN WallResponse(g)
         ELSE WallLoopStrict(g, level_index, walls, k + 1)

\* lines 535-543: the loop over the current level's walls, from wall k on
RECURSIVE WallLoop(_, _, _, _)
WallLoop(g, level_index, walls, k) ==
    IF k > Len(walls)
    THEN [g |-> g, level_index |-> level_index]
    ELSE IF rect_touching(g.player.rect, walls[k])
         THEN WallResponse(g)
         ELSE WallLoop(g, level_index, walls, k + 1)

\* ExitRule with the two position assignments reversed: the player's
\* coordinates are stored into the next level's spawn position
ExitRuleWritesSpawn(g, level_index) ==
    IF rect_touching(g.player.rect, LevelAt(g.levels, g.current_level).exit)
    THEN LET li == level_index + 1
         IN  IF li >= Len(g.levels)
             THEN [g EXCEPT !.current_level = li, !.panicked = TRUE]
             ELSE [g EXCEPT !.current_level = li,
                            !.levels[li + 1].position =
                                <<g.player.rect.x, g.player.rect.y>>]
    ELSE g

\* lines 545-554: the exit test; levels[3] is out of bounds and panics after
\* current_level has been assigned
ExitRule(g, level_index) ==
    IF rect_touching(g.player.rect, LevelAt(g.levels, g.current_level).exit)
    THEN LET li == level_index + 1
         IN  IF li >= Len(g.levels)
             THEN [g EXCEPT !.current_level = li, !.panicked = TRUE]
             ELSE [g EXCEPT !.current_level = li,
                            !.player.rect.x = LevelAt(g.levels, li).position[1],
                            !.player.rect.y = LevelAt(g.levels, li).position[2]]
    ELSE g

\* GamePlayStep with the exit test placed before the wall loop
GamePlayStepExitFirst(g, held) ==
    LET g1 == [g EXCEPT !.player = ApplyKeys(g.player, held)]
        g2 == ExitRule(g1, g.current_level)
    IN  IF g2.panicked
        THEN g2
        ELSE WallLoop(g2, g2.current_level,
                      LevelAt(g2.levels, g2.current_level).gamemap, 1).g

\* lines 517-555
GamePlayStep(g, held) ==
    LET g1 == [g EXCEPT !.player = ApplyKeys(g.player, held)]
        r  == WallLoop(g1, g.current_level,
                       LevelAt(g1.levels, g1.current_level).gamemap, 1)
    IN  ExitRule(r.g, r.level_index)

\* lines 508-576
\* update_game leaving the title screen on any held key
update_gameAnyKey(g, held) ==
    CASE g.mode = "TitleScreen" ->
            IF held # {} THEN [g EXCEPT !.mode = "GamePlay"] ELSE g
      [] g.mode = "GamePlay" -> GamePlayStep(g, held)
      [] g.mode = "EndGame" -> g

\* update_game running the GamePlay arm in the call that leaves the title
\* screen
update_gameFallsThrough(g, held) ==
    CASE g.mode = "TitleScreen" ->
            IF "Space" \in held
            THEN GamePlayStep([g EXCEPT !.mode = "GamePlay"], held)
            ELSE g
      [] g.mode = "GamePlay" -> GamePlayStep(g, held)
      [] g.mode = "EndGame" -> g

update_game(g, held) ==
    CASE g.mode = "TitleScreen" ->
            IF "Space" \in held THEN [g EXCEPT !.mode = "GamePlay"] ELSE g
      [] g.mode = "GamePlay" -> GamePlayStep(g, held)
      [] g.mode = "EndGame" -> g

---------------------------------------------------------------------------
(* game2d.rs: the tile map, the entities and update_game *)

\* lines 126-135: the side of a tile, and of an entity, in pixels
TILE_SZ == 16

\* lines 57-70: the solid flag of tile types 0..8
tileset ==
    <<FALSE, TRUE, TRUE, TRUE, TRUE, TRUE, TRUE, TRUE, TRUE>>

\* lines 78-98: the 16x16 grid of tile types, row by row
MapSize == 16

tile_grid ==
    << 1, 1, 1, 1, 1, 1, 1, 1, 1, 1, 1, 1, 1, 1, 1, 1,
       1, 0, 0, 0, 0, 0, 0, 0, 0, 0, 0, 0, 0, 0, 0, 1,
       1, 0, 0, 0, 0, 0, 0, 0, 0, 0, 0, 0, 0, 0, 0, 1,
       1, 0, 0, 0, 0, 0, 0, 0, 0, 0, 0, 0, 0, 0, 0, 1,
       1, 0, 0, 0, 0, 0, 0, 0, 0, 0, 0, 0, 0, 0, 0, 1,
       1, 0, 0, 0, 0, 0, 0, 0, 0, 0, 0, 0, 0, 0, 0, 1,
       1, 0, 0, 0, 0, 0, 0, 0, 0, 0, 0, 0, 0, 0, 0, 1,
       1, 0, 0, 0, 0, 2, 3, 2, 0, 0, 0, 0, 0, 0, 0, 1,
       1, 0, 0, 0, 0, 0, 0, 0, 0, 0, 0, 0, 0, 0, 0, 1,
       1, 0, 0, 0, 0, 0, 0, 0, 0, 0, 0, 0, 0, 0, 0, 1,
       1, 0, 0, 0, 0, 0, 0, 0, 0, 0, 0, 0, 0, 0, 0, 1,
       1, 0, 0, 0, 2, 3, 2, 3, 2, 0, 0, 0, 0, 0, 0, 1,
       1, 0, 0, 0, 0, 0, 0, 0, 0, 0, 0, 5, 6, 8, 0, 1,
       1, 0, 0, 0, 0, 0, 0, 0, 0, 0, 0, 4, 7, 9, 0, 1,
       1, 0, 0, 0, 0, 0, 0, 0, 0, 0, 0, 4, 7, 9, 0, 1,
       1, 1, 1, 1, 1, 1, 1, 1, 1, 1, 1, 1, 1, 1, 1, 1 >>

\* lines 101-104: the entities of level 0, in tile coordinates
level_entities == << <<2, 13>>, <<10, 13>> >>

\* lines 124-134
InitPositions ==
    [e \in 1..Len(level_entities) |->
        <<level_entities[e][1] * TILE_SZ, level_entities[e][2] * TILE_SZ>>]

InitVelocities == [e \in 1..Len(level_entities) |-> <<0, 0>>]

\* KeyVelocity with a velocity component set to 0 when no key of its axis
\* is held
KeyVelocityStops(v, held) ==
    LET vx == IF "Left" \in held THEN 0 - 2
              ELSE IF "Right" \in held THEN 2 ELSE 0
        vy == IF "Down" \in held THEN 2
              ELSE IF "Up" \in held THEN 0 - 2 ELSE 0
    IN  <<vx, vy>>

\* lines 159-170: the four key tests on the player's velocity, in the
\* code's order (a later assignment overwrites an earlier one)
KeyVelocity(v, held) ==
    LET vx1 == IF "Right" \in held THEN 2 ELSE v[1]
        vx2 == IF "Left" \in held THEN 0 - 2 ELSE vx1
        vy1 == IF "Up" \in held THEN 0 - 2 ELSE v[2]
        vy2 == IF "Down" \in held THEN 2 ELSE vy1
    IN  <<vx2, vy2>>

\* lines 157-203: game2d's update_game on e = [positions, velocities];
\* entity 0 (index 1 here) is the player.  The collision steps are comments.
game2d_update_game(e, held) ==
    LET vel == [e.velocities EXCEPT ![1] = KeyVelocity(@, held)]
        pos == [i \in 1..Len(e.positions) |->
                   <<e.positions[i][1] + vel[i][1],
                     e.positions[i][2] + vel[i][2]>>]
    IN  [positions |-> pos, velocities |-> vel]

---------------------------------------------------------------------------
(* The state as one record, and back *)

Game == [mode |-> mode, player |-> player, current_level |-> current_level,
         levels |-> levels, panicked |-> panicked]

SetGame(g) ==
    /\ mode' = g.mode
    /\ player' = g.player
    /\ current_level' = g.current_level
    /\ levels' = g.levels
    /\ panicked' = g.panicked

NoCall == [called |-> FALSE]

CallRecord(g) ==
    [called |-> TRUE, mode |-> g.mode, level |-> g.current_level,
     x |-> g.player.rect.x, y |-> g.player.rect.y]

---------------------------------------------------------------------------
(* The event-loop callback.  A driver state d is the record                *)
(*   [g, held, available_time, frame_count, control_flow, calls, cb, last] *)

\* LoopIteration without the increment of frame_count
LoopIterationNoCount(d) ==
    [d EXCEPT !.available_time = @ - DT,
              !.g = update_game(d.g, d.held),
              !.calls = @ + 1,
              !.last = CallRecord(d.g)]

\* lines 455-464: one iteration of the while loop.  A panic inside
\* update_game unwinds before frame_count is incremented.
LoopIteration(d) ==
    LET g2 == update_game(d.g, d.held)
        d1 == [d EXCEPT !.available_time = @ - DT,
                        !.g = g2,
                        !.calls = @ + 1,
                        !.last = CallRecord(d.g)]
    IN  IF g2.panicked THEN d1 ELSE [d1 EXCEPT !.frame_count = @ + 1]

\* lines 454-465
RECURSIVE RunLoop(_)
RunLoop(d) ==
    IF d.available_time >= DT /\ ~d.g.panicked
    THEN RunLoop(LoopIteration(d))
    ELSE d

\* lines 442-447: the test that ends the callback early
QuitObserved(ev) == ev.upd /\ (ev.esc \/ ev.quit)

\* Callback with the quit test placed after the while loop
CallbackLoopFirst(d, ev) ==
    IF QuitObserved(ev)
    THEN [RunLoop(d) EXCEPT !.control_flow = "Exit", !.cb = "exit"]
    ELSE [RunLoop(d) EXCEPT !.cb = "loop"]

\* lines 407-470: the closure given to event_loop.run.  The RedrawRequested
\* branch is empty (its body, with the statement that adds the elapsed time
\* to available_time, is inside a block comment), so ev.elapsed is not read.
Callback(d, ev) ==
    IF QuitObserved(ev)
    THEN [d EXCEPT !.control_flow = "Exit", !.cb = "exit"]
    ELSE [RunLoop(d) EXCEPT !.cb = "loop"]

\* what one delivered event shows the callback: the keys the helper reports
\* held after input.update(event), whether update returned true, whether
\* Escape was pressed or a quit was requested, and the time since the last
\* callback ended
DriverSnapshots ==
    {{}, {"Space"}, {"Up"}, {"Down"}, {"Left"}, {"Right"},
     {"Space", "Up"}, {"Right", "Down"}}

Events ==
    [held : DriverSnapshots, upd : BOOLEAN, esc : BOOLEAN, quit : BOOLEAN,
     elapsed : 0..MaxElapsed]

Driver(held) ==
    [g |-> Game, held |-> held, available_time |-> available_time,
     frame_count |-> frame_count, control_flow |-> control_flow,
     calls |-> calls, cb |-> cb, last |-> last]

---------------------------------------------------------------------------
(* Initial states *)

InitGame ==
    /\ mode = "TitleScreen"
    /\ player = InitPlayer
    /\ current_level = 0
    /\ levels = InitLevels
    /\ panicked = FALSE

InitDriver ==
    /\ input = {}
    /\ frame_count = 0
    /\ control_flow = "Poll"
    /\ T = 0
    /\ calls = 0
    /\ cb = "none"
    /\ event = [upd |-> FALSE, esc |-> FALSE, quit |-> FALSE]
    /\ last = NoCall

\* game2d: the entities as main places them
InitEntities ==
    /\ positions = InitPositions
    /\ velocities = InitVelocities

\* the state main hands to event_loop.run
Init ==
    /\ InitGame
    /\ InitDriver
    /\ InitEntities
    /\ available_time = 0

\* the callback entered with any accumulator value
InitLoop ==
    /\ InitGame
    /\ InitDriver
    /\ InitEntities
    /\ available_time \in 0..MaxAvail

\* start positions for single calls: windows around the corner of each
\* level's exit contact zone, around a wall edge of each level, and around
\* the place a wall contact sends the player to
Anchors ==
    { [level |-> 0, x |-> 173, y |-> 89],
      [level |-> 0, x |-> 170, y |-> 394],
      [level |-> 0, x |-> 170, y |-> 500],
      [level |-> 1, x |-> 208, y |-> 449],
      [level |-> 1, x |-> 170, y |-> 170],
      [level |-> 2, x |-> 362, y |-> 39],
      [level |-> 2, x |-> 270, y |-> 100] }

StartStates ==
    { [level |-> a.level, x |-> a.x + dx, y |-> a.y + dy] :
        a \in Anchors, dx \in (0 - Margin)..Margin, dy \in (0 - Margin)..Margin }

Modes == {"TitleScreen", "GamePlay", "EndGame"}

\* update_game entered with any mode, level index and player position
InitStep ==
    /\ InitDriver
    /\ InitEntities
    /\ available_time = 0
    /\ levels = InitLevels
    /\ panicked = FALSE
    /\ mode \in Modes
    /\ \E s \in StartStates :
          /\ current_level = s.level
          /\ player = [InitPlayer EXCEPT !.rect.x = s.x, !.rect.y = s.y]

---------------------------------------------------------------------------
(* Actions *)

\* one callback of the event loop, whole.  The model stops delivering
\* events once the control flow is Exit (the closing delivery winit makes
\* while it shuts down is not followed), and after a panic.
EventLoopCallback(ev) ==
    /\ control_flow # "Exit"
    /\ ~panicked
    /\ T + ev.elapsed <= MaxT
    /\ LET d == Callback(Driver(ev.held), ev)
       IN  /\ SetGame(d.g)
           /\ input' = d.held
           /\ available_time' = d.available_time
           /\ frame_count' = d.frame_count
           /\ control_flow' = d.control_flow
           /\ calls' = d.calls
           /\ cb' = d.cb
           /\ last' = d.last
    /\ event' = [upd |-> ev.upd, esc |-> ev.esc, quit |-> ev.quit]
    /\ T' = T + ev.elapsed
    /\ UNCHANGED <<positions, velocities>>

\* one call of update_game with the snapshot held; the driver is not followed
UpdateGameCall(held) ==
    /\ ~panicked
    /\ input' = held
    /\ SetGame(update_game(Game, held))
    /\ last' = CallRecord(Game)
    /\ UNCHANGED <<available_time, frame_count, control_flow, T, calls, cb,
                   event, positions, velocities>>

InBox(p) ==
    /\ p.rect.x \in BoxMinX..BoxMaxX
    /\ p.rect.y <= BoxMaxY

\* game2d: one call of its update_game with the snapshot held
UpdateGame2DCall(held) ==
    /\ input' = held
    /\ LET e == game2d_update_game(
                    [positions |-> positions, velocities |-> velocities], held)
       IN  /\ positions' = e.positions
           /\ velocities' = e.velocities
    /\ last' = [called |-> TRUE, positions |-> positions,
                velocities |-> velocities]
    /\ UNCHANGED <<gameVars, available_time, frame_count, control_flow, T,
                   calls, cb, event>>

InReach2D(pos) ==
    /\ pos[1][1] - InitPositions[1][1] \in (0 - Reach2D)..Reach2D
    /\ pos[1][2] - InitPositions[1][2] \in (0 - Reach2D)..Reach2D

Next == \E ev \in Events : EventLoopCallback(ev)

Next2D ==
    \E held \in SUBSET Directions : UpdateGame2DCall(held) /\ InReach2D(positions')

GameNext == \E held \in Snapshots : UpdateGameCall(held) /\ InBox(player')

StepNext == \E held \in Snapshots : ~last.called /\ UpdateGameCall(held)

\* the program
Spec == Init /\ [][Next]_vars

\* the callback from any accumulator value
SpecLoop == InitLoop /\ [][Next]_vars

\* any sequence of update_game calls from the initial game state
SpecGame == Init /\ [][GameNext]_vars

\* one update_game call from any game state
SpecStep == InitStep /\ [][StepNext]_vars

\* game2d: any sequence of update_game calls from its initial state
Spec2D == Init /\ [][Next2D]_vars

---------------------------------------------------------------------------
(* What the properties below read off the last update_game call: the state *)
(* it started in is in last, the snapshot it was given is input.           *)

Held(k) == IF k \in input THEN 1 ELSE 0

\* the player's rectangle after the held directional keys have been applied
MovedRect ==
    [player.rect EXCEPT !.x = last.x + Held("Right") - Held("Left"),
                        !.y = last.y + Held("Down") - Held("Up")]

TouchesWallOf(r, i) ==
    \E k \in 1..Len(LevelAt(InitLevels, i).gamemap) :
        rect_touching(r, LevelAt(InitLevels, i).gamemap[k])

TouchesExitOf(r, i) == rect_touching(r, LevelAt(InitLevels, i).exit)

PlayerAt(x, y) == player.rect.x = x /\ player.rect.y = y

PlayerAtSpawnOf(i) ==
    PlayerAt(LevelAt(InitLevels, i).position[1],
             LevelAt(InitLevels, i).position[2])

GamePlayCall == last.called /\ last.mode = "GamePlay"

---------------------------------------------------------------------------
C2_WallKeepsLevel ==
    (GamePlayCall /\ TouchesWallOf(MovedRect, last.level))
        => current_level = last.level

\* C2 as amended: a GamePlay call at any level i in which the player touches
\* a wall of level i ends with current_level = 0; the level index survives
\* the contact only when i = 0.
C2_WallResetsLevel ==
    (GamePlayCall /\ TouchesWallOf(MovedRect, last.level))
        => current_level = 0

\* a wall contact at level 1 that ended at level 0
C2_Witness ==
    /\ GamePlayCall
    /\ last.level = 1
    /\ TouchesWallOf(MovedRect, 1)
    /\ current_level = 0

\* the first wall of level i, in list order, that r touches
FirstWallTouched(r, i) ==
    LET walls == LevelAt(InitLevels, i).gamemap
        k == CHOOSE n \in 1..Len(walls) :
                 /\ rect_touching(r, walls[n])
                 /\ \A j \in 1..(n - 1) : ~rect_touching(r, walls[j])
    IN  walls[k]

Min(a, b) == IF a <= b THEN a ELSE b
Max(a, b) == IF a >= b THEN a ELSE b
Abs(a) == IF a >= 0 THEN a ELSE 0 - a

\* penetration of r into w on each axis
OverlapX(r, w) == Min(r.x + r.w, w.x + w.w) - Max(r.x, w.x)
OverlapY(r, w) == Min(r.y + r.h, w.y + w.h) - Max(r.y, w.y)

\* C3 as stated: a wall contact moves the player by the penetration amount
\* along the axis of minimum penetration and leaves its coordinate on the
\* other axis as the keys left it.
C3_MinAxisSeparation ==
    (GamePlayCall /\ TouchesWallOf(MovedRect, last.level))
        => LET w == FirstWallTouched(MovedRect, last.level)
               dx == OverlapX(MovedRect, w)
               dy == OverlapY(MovedRect, w)
               alongX == /\ player.rect.y = MovedRect.y
                         /\ Abs(player.rect.x - MovedRect.x) = dx
               alongY == /\ player.rect.x = MovedRect.x
                         /\ Abs(player.rect.y - MovedRect.y) = dy
           IN  IF dx < dy THEN alongX
               ELSE IF dy < dx THEN alongY
               ELSE alongX \/ alongY

\* C3 as amended: a wall contact performs no separation; it overwrites both
\* coordinates of the player with the fixed position (170, 500), whatever
\* the wall and the penetration.
C3_WallTeleports ==
    (GamePlayCall /\ TouchesWallOf(MovedRect, last.level))
        => PlayerAt(170, 500)

\* a player that moved down into a wall below it, one pixel deep, and was
\* sent to (170, 500) with both coordinates changed
C3_Witness ==
    /\ GamePlayCall
    /\ "Down" \in input
    /\ TouchesWallOf(MovedRect, last.level)
    /\ OverlapY(MovedRect, FirstWallTouched(MovedRect, last.level)) = 1
    /\ MovedRect.x # 170
    /\ PlayerAt(170, 500)

\* C4: in every state reachable from the initial state the player's
\* rectangle touches no wall of the current level.
C4_NoWallContact ==
    \A k \in 1..Len(LevelAt(levels, current_level).gamemap) :
        ~rect_touching(player.rect, LevelAt(levels, current_level).gamemap[k])

\* the state after a call in which the player walked into a wall
C4_Witness ==
    /\ GamePlayCall
    /\ ~TouchesWallOf([player.rect EXCEPT !.x = last.x, !.y = last.y], last.level)
    /\ TouchesWallOf(MovedRect, last.level)
    /\ C4_NoWallContact

---------------------------------------------------------------------------
\* C5: the number of update_game calls performed, frame_count, equals
\* floor(T / DT) for the real time T elapsed over the callbacks so far, every
\* callback having added its elapsed time to available_time.
C5_StepsMatchElapsed ==
    /\ frame_count = T \div DT
    /\ available_time = T - frame_count * DT

\* C6: a callback that runs the while loop n times subtracts n * DT from
\* available_time, makes n update_game calls and adds n to frame_count; when
\* the loop exits 0 <= available_time < DT; frame_count equals the number of
\* update_game calls made so far.
C6_LoopAccounting ==
    [][ /\ frame_count' - frame_count = calls' - calls
        /\ available_time - available_time' = DT * (frame_count' - frame_count)
        /\ frame_count' >= frame_count
        /\ frame_count' = calls'
        /\ (cb' = "loop" => (0 <= available_time' /\ available_time' < DT))
      ]_vars

\* a callback that caught up three steps and left half a timestep
C6_Witness ==
    /\ cb = "loop"
    /\ frame_count = 3
    /\ calls = 3
    /\ available_time = 1

\* C7: a callback in which the Escape press or the quit request is observed
\* sets the control flow to Exit and makes no update_game call, however much
\* time has accumulated: game state, frame_count and available_time are as
\* they were.
C7_QuitRunsNoStep ==
    [][ (control_flow = "Poll" /\ event'.upd /\ (event'.esc \/ event'.quit))
          => /\ control_flow' = "Exit"
             /\ calls' = calls
             /\ frame_count' = frame_count
             /\ available_time' = available_time
             /\ gameVars' = gameVars
      ]_vars

\* the quit was observed with three timesteps accumulated, and no step ran
C7_Witness ==
    /\ control_flow = "Exit"
    /\ event.upd
    /\ event.esc \/ event.quit
    /\ available_time >= 3 * DT
    /\ calls = 0

\* C8: in a GamePlay call the keys are applied first, the walls are handled
\* next, and the exit test reads the position and level index the wall
\* handling left.
C8_PhaseOrder ==
    GamePlayCall =>
        LET hit == TouchesWallOf(MovedRect, last.level)
            x2 == IF hit THEN 170 ELSE MovedRect.x
            y2 == IF hit THEN 500 ELSE MovedRect.y
            l2 == IF hit THEN 0 ELSE last.level
            r2 == [MovedRect EXCEPT !.x = x2, !.y = y2]
        IN  IF TouchesExitOf(r2, l2)
            THEN /\ current_level = l2 + 1
                 /\ IF l2 + 1 < Len(InitLevels)
                    THEN ~panicked /\ PlayerAtSpawnOf(l2 + 1)
                    ELSE panicked /\ PlayerAt(x2, y2)
            ELSE /\ current_level = l2
                 /\ ~panicked
                 /\ PlayerAt(x2, y2)

\* a call at level 1 in which the moved player touched a wall and the exit:
\* the exit test read the position the wall handling left, so no transition
C8_Witness ==
    /\ GamePlayCall
    /\ last.level = 1
    /\ TouchesWallOf(MovedRect, 1)
    /\ TouchesExitOf(MovedRect, 1)
    /\ current_level = 0
    /\ PlayerAt(170, 500)

\* C9: after a GamePlay call reachable from the initial state, a further
\* call with no directional key held changes neither the player's position
\* nor current_level.
C9_Idempotent ==
    [][ (GamePlayCall /\ mode = "GamePlay" /\ input' \cap Directions = {})
          => /\ player' = player
             /\ current_level' = current_level
      ]_vars

\* a call with no directional key held, made after the player had moved
\* away from where it starts, that changed nothing
C9_Witness ==
    /\ GamePlayCall
    /\ input \cap Directions = {}
    /\ last.y < 500
    /\ last.x # 170
    /\ PlayerAt(last.x, last.y)
    /\ current_level = last.level

---------------------------------------------------------------------------
\* the rectangles of level i the player is tested against
ObstaclesOf(i) ==
    { LevelAt(InitLevels, i).gamemap[k] :
        k \in 1..Len(LevelAt(InitLevels, i).gamemap) }
    \cup { LevelAt(InitLevels, i).exit }

\* r and o share an edge coordinate on one axis while their projections on
\* the other axis meet
SharesEdge(r, o) ==
    \/ /\ r.x + r.w = o.x \/ o.x + o.w = r.x
       /\ r.y <= o.y + o.h
       /\ o.y <= r.y + r.h
    \/ /\ r.y + r.h = o.y \/ o.y + o.h = r.y
       /\ r.x <= o.x + o.w
       /\ o.x <= r.x + r.w

---------------------------------------------------------------------------
(* game2d *)

\* the tile type at grid cell (col, row), both in 0..MapSize-1
TileTypeAt(col, row) == tile_grid[row * MapSize + col + 1]

\* whether the cell is off the map or holds a solid tile (a type the
\* tileset does not list has no non-solid flag to show)
SolidCell(col, row) ==
    \/ col < 0 \/ col >= MapSize \/ row < 0 \/ row >= MapSize
    \/ LET t == TileTypeAt(col, row)
       IN  IF t + 1 <= Len(tileset) THEN tileset[t + 1] ELSE TRUE

\* the grid cells the 16x16 rectangle at pos covers
CellsUnder(pos) ==
    { <<c, r>> : c \in (pos[1] \div TILE_SZ)..((pos[1] + TILE_SZ - 1) \div TILE_SZ),
                 r \in (pos[2] \div TILE_SZ)..((pos[2] + TILE_SZ - 1) \div TILE_SZ) }

\* C12: after any update_game call of game2d no entity's 16x16 rectangle
\* overlaps a solid tile of the grid or lies off the map.
C12_NoSolidOverlap ==
    \A e \in 1..Len(positions) :
        \A cell \in CellsUnder(positions[e]) : ~SolidCell(cell[1], cell[2])

\* C19: each component of the player's velocity is in {-2, 0, 2}; a
\* component that is nonzero before a call is nonzero after it, and the call
\* moves the player by exactly 2 on that axis, whatever keys are held.
C19_VelocityNeverStops ==
    [][ /\ \A a \in 1..2 : velocities'[1][a] \in {0 - 2, 0, 2}
        /\ \A a \in 1..2 :
              velocities[1][a] # 0
                => /\ velocities'[1][a] # 0
                   /\ Abs(positions'[1][a] - positions[1][a]) = 2
      ]_vars

\* a call with no key held, made while the player was moving on x, that
\* moved it by 2 on x
C19_Witness ==
    /\ last.called
    /\ last.velocities[1][1] # 0
    /\ input = {}
    /\ velocities[1][1] = last.velocities[1][1]
    /\ Abs(positions[1][1] - last.positions[1][1]) = 2

---------------------------------------------------------------------------
\* C13: no update_game call, in any mode and for any input, changes a
\* level's wall list, exit rectangle or spawn position; of the player only x
\* and y can change.
C13_LevelsImmutable ==
    [][ /\ levels' = levels
        /\ [player' EXCEPT !.rect.x = 0, !.rect.y = 0]
             = [player EXCEPT !.rect.x = 0, !.rect.y = 0]
      ]_vars

\* a call that made the level transition from level 1, the one place where
\* level data is read to be copied, with the level data as main built it
C13_Witness ==
    /\ GamePlayCall
    /\ last.level = 1
    /\ current_level = 2
    /\ PlayerAtSpawnOf(2)
    /\ levels = InitLevels

---------------------------------------------------------------------------
\* C14: in every state reachable from the initial state current_level is a
\* valid index into levels: no call has advanced it past the last level and
\* no access levels[current_level] has been out of bounds.
C14_LevelIndexValid ==
    /\ ~panicked
    /\ current_level \in 0..(Len(levels) - 1)

\* the state after a call in which the level index was assigned (by the
\* wall branch)
C14_Witness ==
    /\ GamePlayCall
    /\ TouchesWallOf(MovedRect, last.level)
    /\ current_level = 0
    /\ ~panicked

---------------------------------------------------------------------------
\* the 11x11 rectangles within Margin pixels of touching level 0's exit
ExitZoneRects ==
    LET e == LevelAt(InitLevels, 0).exit
    IN  { Rect(x, y, InitPlayer.rect.w, InitPlayer.rect.h) :
            x \in (e.x - InitPlayer.rect.w - Margin)..(e.x + e.w + Margin),
            y \in (e.y - InitPlayer.rect.h - Margin)..(e.y + e.h + Margin) }

\* every player rectangle that touches level 0's exit touches its square wall
ExitInsideSquareWall ==
    \A r \in ExitZoneRects :
        TouchesExitOf(r, 0) =>
            rect_touching(r, LevelAt(InitLevels, 0).gamemap[5])

\* C15: from main's initial state current_level = 0 in every reachable state:
\* every player position that touches level 0's exit also touches its square
\* wall, a call in which the moved player touches a wall ends with the player
\* at (170,500) touching neither a wall nor the exit, and so the player never
\* rests on the exit and the exit branch never runs.
C15_AlwaysLevelZero ==
    /\ current_level = 0
    /\ ExitInsideSquareWall
    /\ ~TouchesExitOf(player.rect, 0)
    /\ (GamePlayCall /\ TouchesWallOf(MovedRect, 0)) =>
          /\ PlayerAt(170, 500)
          /\ ~TouchesWallOf(player.rect, 0)
          /\ ~TouchesExitOf(player.rect, 0)

\* the state after a call in which the moved player touched the square wall
C15_Witness ==
    /\ GamePlayCall
    /\ rect_touching(MovedRect, LevelAt(InitLevels, 0).gamemap[5])
    /\ PlayerAt(170, 500)
    /\ current_level = 0

---------------------------------------------------------------------------
\* C16: mode starts as TitleScreen; a call made in TitleScreen changes it to
\* GamePlay exactly when Space is held in that call; no other call changes
\* mode, so GamePlay is kept forever and EndGame is never reached.
C16_ModeMachine ==
    /\ mode = "TitleScreen"
    /\ [][ /\ mode # "EndGame" /\ mode' # "EndGame"
           /\ mode = "GamePlay" => mode' = "GamePlay"
           /\ mode = "TitleScreen" =>
                 mode' = (IF "Space" \in input' THEN "GamePlay"
                                              ELSE "TitleScreen") ]_vars

\* the state after the call that left the title screen
C16_Witness ==
    /\ last.called
    /\ last.mode = "TitleScreen"
    /\ "Space" \in input
    /\ mode = "GamePlay"

---------------------------------------------------------------------------
\* C17: a call of update_game entered in TitleScreen or EndGame mode leaves
\* the player's rectangle and current_level as they were, whatever keys are
\* held, also when the call switches TitleScreen to GamePlay.
C17_NoMoveOutsideGamePlay ==
    (last.called /\ last.mode # "GamePlay") =>
        /\ PlayerAt(last.x, last.y)
        /\ player.rect.w = InitPlayer.rect.w
        /\ player.rect.h = InitPlayer.rect.h
        /\ current_level = last.level

\* the state after the call that left the title screen with a directional
\* key held
C17_Witness ==
    /\ last.called
    /\ last.mode = "TitleScreen"
    /\ mode = "GamePlay"
    /\ input \cap Directions # {}
    /\ PlayerAt(last.x, last.y)

---------------------------------------------------------------------------
\* C18 as stated: every GamePlay call that ends with the player touching
\* neither a wall nor the exit of the current level has moved the player by
\* (Right - Left, Down - Up).
C18_EndsClearMovesByKeys ==
    (/\ GamePlayCall
     /\ ~panicked
     /\ ~TouchesWallOf(player.rect, current_level)
     /\ ~TouchesExitOf(player.rect, current_level)) =>
        player.rect = MovedRect

\* C18: in every GamePlay call in which the player, after the held keys have
\* been applied, touches neither a wall nor the exit of its level, x has
\* changed by Right - Left and y by Down - Up (at most 1 each, opposite keys
\* cancel) and the level is kept; w, h, vx and vy are those main gave the
\* player after every call.
C18_ClearMoveByKeys ==
    /\ player.rect.w = InitPlayer.rect.w
    /\ player.rect.h = InitPlayer.rect.h
    /\ player.vx = InitPlayer.vx
    /\ player.vy = InitPlayer.vy
    /\ (/\ GamePlayCall
        /\ ~TouchesWallOf(MovedRect, last.level)
        /\ ~TouchesExitOf(MovedRect, last.level)) =>
          /\ player.rect.x - last.x = Held("Right") - Held("Left")
          /\ player.rect.y - last.y = Held("Down") - Held("Up")
          /\ Abs(player.rect.x - last.x) <= 1
          /\ Abs(player.rect.y - last.y) <= 1
          /\ current_level = last.level

\* the state after a call with Right and Left both held, and Down, that left
\* the player clear of the walls and the exit
C18_Witness ==
    /\ GamePlayCall
    /\ {"Right", "Left", "Down"} \subseteq input
    /\ "Up" \notin input
    /\ ~TouchesWallOf(MovedRect, last.level)
    /\ ~TouchesExitOf(MovedRect, last.level)
    /\ PlayerAt(last.x, last.y + 1)

=============================================================================
